---- MODULE Spec2Model ----
(***************************************************************************)
(* A model of the convert_case conversion pipeline:                        *)
(*   split (boundary.rs)  ->  Pattern::mutate (pattern.rs)  ->  join,      *)
(* packaged by Converter (converter.rs), Case (case.rs) and the Casing /   *)
(* StateConverter shortcuts (lib.rs).                                      *)
(*                                                                         *)
(* A string is a sequence of graphemes.  A grapheme is a token (a TLA+     *)
(* string); ByteLen gives its UTF-8 length, to_uppercase / to_lowercase    *)
(* its case mappings (sequences of graphemes, because a mapping may        *)
(* change the number of graphemes: the sharp s "sz" uppercases to "SS").   *)
(***************************************************************************)
EXTENDS Integers, Sequences, FiniteSets, TLC

VARIABLES
    boundaries,   \* Converter.boundaries : Vec<Boundary>
    patterns,     \* Converter.patterns   : Vec<Pattern>
    delimiter,    \* Converter.delimiter  : String
    calls,        \* number of builder calls made on the converter so far
    input,        \* the string handed to the last convert call
    words,        \* what split returned inside the last convert call
    output        \* what the last convert call returned

vars == <<boundaries, patterns, delimiter, calls, input, words, output>>

conv == [boundaries |-> boundaries, patterns |-> patterns, delimiter |-> delimiter]

----------------------------------------------------------------------------
(* Bounds of the model *)

\* builder calls made on one converter
MaxCalls == 2
\* length of the enumerated input strings over letters and digits
MaxLen == 4
\* length of the enumerated input strings over letters, digits, delimiters
\* and symbols
MaxShort == 2

----------------------------------------------------------------------------
(* Graphemes *)

LowerLetters == <<"a","b","c","d","e","f","g","h","i","j","k","l","m",
                  "n","o","p","q","r","s","t","u","v","w","x","y","z">>
UpperLetters == <<"A","B","C","D","E","F","G","H","I","J","K","L","M",
                  "N","O","P","Q","R","S","T","U","V","W","X","Y","Z">>
Digits == {"0","1","2","3","4","5","6","7","8","9"}
\* "sz" is the sharp s (U+00DF, 2 bytes, uppercases to "SS"),
\* "arrow" a 3-byte symbol without case
Symbols == {"_", "-", " ", ".", ":", "@", "sz", "arrow"}

Range(f) == {f[i] : i \in DOMAIN f}

Graphemes == Range(LowerLetters) \cup Range(UpperLetters) \cup Digits \cup Symbols

IndexOf(seq, x) == CHOOSE i \in DOMAIN seq : seq[i] = x

\* str::len of one grapheme, in bytes
ByteLen(g) == CASE g = "sz" -> 2
                [] g = "arrow" -> 3
                [] OTHER -> 1

to_uppercase_map ==
    [g \in Graphemes |->
        IF g \in Range(LowerLetters) THEN <<UpperLetters[IndexOf(LowerLetters, g)]>>
        ELSE IF g = "sz" THEN <<"S", "S">>
        ELSE <<g>>]

to_lowercase_map ==
    [g \in Graphemes |->
        IF g \in Range(UpperLetters) THEN <<LowerLetters[IndexOf(UpperLetters, g)]>>
        ELSE <<g>>]

RECURSIVE FlatMap(_, _)
FlatMap(f, s) == IF s = <<>> THEN <<>> ELSE f[Head(s)] \o FlatMap(f, Tail(s))

\* str::to_uppercase / str::to_lowercase of a whole string
to_uppercase(s) == FlatMap(to_uppercase_map, s)
to_lowercase(s) == FlatMap(to_lowercase_map, s)

\* a digit test that knows only 0 and 1
grapheme_is_binary_digit(c) == c \in {"0", "1"}

\* boundary.rs: the three grapheme classifiers
grapheme_is_digit(c) == c \in Digits

grapheme_is_uppercase(c) ==
    /\ to_uppercase_map[c] # to_lowercase_map[c]
    /\ <<c>> = to_uppercase_map[c]

\* a lowercase test that also takes the underscore for a lowercase letter
grapheme_is_lowercase_or_underscore(c) ==
    \/ c = "_"
    \/ /\ to_uppercase_map[c] # to_lowercase_map[c]
       /\ <<c>> = to_lowercase_map[c]

grapheme_is_lowercase(c) ==
    /\ to_uppercase_map[c] # to_lowercase_map[c]
    /\ <<c>> = to_lowercase_map[c]

----------------------------------------------------------------------------
(* boundary.rs: Boundary *)

\* A boundary value.  For the built-in variants only `kind` matters; a
\* Custom boundary carries its `arg`, `start` and `len` fields, and its
\* condition is the one from_delim installs (the window starts with arg).
Builtin(k) == [kind |-> k, arg |-> <<>>, start |-> 0, len |-> 0]

Hyphen == Builtin("Hyphen")
Underscore == Builtin("Underscore")
Space == Builtin("Space")
UpperLower == Builtin("UpperLower")
LowerUpper == Builtin("LowerUpper")
DigitUpper == Builtin("DigitUpper")
UpperDigit == Builtin("UpperDigit")
DigitLower == Builtin("DigitLower")
LowerDigit == Builtin("LowerDigit")
Acronym == Builtin("Acronym")

BuiltinBoundaries == {Hyphen, Underscore, Space, UpperLower, LowerUpper,
                      DigitUpper, UpperDigit, DigitLower, LowerDigit, Acronym}

Custom(arg, start, len) == [kind |-> "Custom", arg |-> arg, start |-> start, len |-> len]

RECURSIVE ByteLenStr(_)
\* str::len of a string, in bytes
ByteLenStr(s) == IF s = <<>> THEN 0 ELSE ByteLen(Head(s)) + ByteLenStr(Tail(s))

\* Boundary::from_delim: start 0 and len = delim.len(), which is str::len
from_delim(delim) == Custom(delim, 0, ByteLenStr(delim))

\* s.get(k) == Some(g) with g satisfying P, for a window s and 0-based k
GetIs(s, k, P(_)) == k < Len(s) /\ P(s[k + 1])

\* s.join("").starts_with(arg)
starts_with(s, arg) == Len(arg) <= Len(s) /\ SubSeq(s, 1, Len(arg)) = arg

\* Boundary::matches
matches(b, s) ==
    CASE b.kind = "Underscore" -> Len(s) > 0 /\ s[1] = "_"
      [] b.kind = "Hyphen" -> Len(s) > 0 /\ s[1] = "-"
      [] b.kind = "Space" -> Len(s) > 0 /\ s[1] = " "
      [] b.kind = "Acronym" ->
            /\ GetIs(s, 0, grapheme_is_uppercase)
            /\ GetIs(s, 1, grapheme_is_uppercase)
            /\ GetIs(s, 2, grapheme_is_lowercase)
      [] b.kind = "LowerUpper" ->
            GetIs(s, 0, grapheme_is_lowercase) /\ GetIs(s, 1, grapheme_is_uppercase)
      [] b.kind = "UpperLower" ->
            GetIs(s, 0, grapheme_is_uppercase) /\ GetIs(s, 1, grapheme_is_lowercase)
      [] b.kind = "LowerDigit" ->
            GetIs(s, 0, grapheme_is_lowercase) /\ GetIs(s, 1, grapheme_is_digit)
      [] b.kind = "UpperDigit" ->
            GetIs(s, 0, grapheme_is_uppercase) /\ GetIs(s, 1, grapheme_is_digit)
      [] b.kind = "DigitLower" ->
            GetIs(s, 0, grapheme_is_digit) /\ GetIs(s, 1, grapheme_is_lowercase)
      [] b.kind = "DigitUpper" ->
            GetIs(s, 0, grapheme_is_digit) /\ GetIs(s, 1, grapheme_is_uppercase)
      [] b.kind = "Custom" -> starts_with(s, b.arg)

\* a len that is 1 for every boundary: every match consumes a grapheme
Boundary_len_one(b) == 1

\* a len that is 0 for every boundary: delimiters are not consumed
Boundary_len_zero(b) == 0

\* Boundary::len
Boundary_len(b) ==
    CASE b.kind \in {"Underscore", "Hyphen", "Space"} -> 1
      [] b.kind \in {"LowerUpper", "UpperLower", "LowerDigit", "UpperDigit",
                     "DigitLower", "DigitUpper", "Acronym"} -> 0
      [] b.kind = "Custom" -> b.len

\* a start that is 0 for every boundary: the cut falls before the first
\* grapheme of the match
Boundary_start_zero(b) == 0

\* Boundary::start
Boundary_start(b) ==
    CASE b.kind \in {"Underscore", "Hyphen", "Space"} -> 0
      [] b.kind \in {"LowerUpper", "UpperLower", "LowerDigit", "UpperDigit",
                     "DigitLower", "DigitUpper", "Acronym"} -> 1
      [] b.kind = "Custom" -> b.start

\* defaults without the hyphen
Boundary_defaults_without_hyphen ==
    <<Underscore, Space, LowerUpper, LowerDigit, UpperDigit,
      DigitLower, DigitUpper, Acronym>>

\* defaults with UpperLower among them
Boundary_defaults_with_upper_lower ==
    <<Underscore, Hyphen, Space, LowerUpper, UpperLower, LowerDigit, UpperDigit,
      DigitLower, DigitUpper, Acronym>>

\* Boundary::defaults
Boundary_defaults ==
    <<Underscore, Hyphen, Space, LowerUpper, LowerDigit, UpperDigit,
      DigitLower, DigitUpper, Acronym>>

\* Boundary::digits
Boundary_digits == <<LowerDigit, UpperDigit, DigitLower, DigitUpper>>

----------------------------------------------------------------------------
(* boundary.rs: split *)

\* s.grapheme_indices(true): the byte offset of every grapheme of s
\* (indices[k + 1] is the offset of the grapheme at 0-based position k)
grapheme_indices(s) == [k \in 1..Len(s) |-> ByteLenStr(SubSeq(s, 1, k - 1))]

\* *indices.get(k).unwrap_or(&grapheme_length)
IndexOr(indices, k, grapheme_length) ==
    IF k < Len(indices) THEN indices[k + 1] ELSE grapheme_length

\* &s[from..to] for byte offsets from <= to that are grapheme starts or the
\* byte length of s: the graphemes whose offset is in [from, to)
ByteSlice(s, indices, from, to) ==
    SubSeq(s, Cardinality({j \in 1..Len(s) : indices[j] < from}) + 1,
              Cardinality({j \in 1..Len(s) : indices[j] < to}))

RECURSIVE FirstMatchFrom(_, _, _)
\* the inner loop `for boundary in boundaries` from the k-th boundary on,
\* with its break: the position of the first boundary that matches the
\* window, 0 when none matches
FirstMatchFrom(bs, window, k) ==
    IF k > Len(bs) THEN 0
    ELSE IF matches(bs[k], window) THEN k
    ELSE FirstMatchFrom(bs, window, k + 1)

\* an inner loop that tests the first boundary of the list only
FirstMatch_first_boundary_only(bs, window) ==
    IF bs # <<>> /\ matches(bs[1], window) THEN 1 ELSE 0

FirstMatch(bs, window) == FirstMatchFrom(bs, window, 1)

RECURSIVE split_loop(_, _, _, _, _, _, _)
\* the body of `if boundary.matches(..)` with both byte offsets computed:
\* slicing with a start past the end panics
split_push(s, bs, indices, grapheme_length, i, ws, last_boundary_end, boundary_byte_start, boundary_byte_end) ==
    IF last_boundary_end > boundary_byte_start
    THEN [panic |-> TRUE, words |-> <<>>]
    ELSE split_loop(s, bs, indices, grapheme_length, i + 1,
                    Append(ws, ByteSlice(s, indices, last_boundary_end,
                                         boundary_byte_start)),
                    boundary_byte_end)

\* one iteration of the outer loop at position i, m being the position of
\* the first matching boundary (0: none, nothing is pushed)
split_at(s, bs, indices, grapheme_length, i, ws, last_boundary_end, m) ==
    IF m = 0
    THEN split_loop(s, bs, indices, grapheme_length, i + 1, ws, last_boundary_end)
    ELSE split_push(s, bs, indices, grapheme_length, i, ws, last_boundary_end,
                    IndexOr(indices, i + Boundary_start(bs[m]), grapheme_length),
                    IndexOr(indices, i + Boundary_start(bs[m]) + Boundary_len(bs[m]),
                            grapheme_length))

\* The outer loop `for i in 0..graphemes.len()` from position i on, with
\* the words pushed so far and last_boundary_end; it visits every
\* position, also those a matched boundary covered.
split_loop(s, bs, indices, grapheme_length, i, ws, last_boundary_end) ==
    IF i >= Len(s)
    THEN [panic |-> FALSE,
          words |-> Append(ws, ByteSlice(s, indices, last_boundary_end, grapheme_length))]
    ELSE split_at(s, bs, indices, grapheme_length, i, ws, last_boundary_end,
                  FirstMatch(bs, SubSeq(s, i + 1, Len(s))))

IsNonEmpty(w) == w # <<>>

\* words.into_iter().filter(|s| !s.is_empty()).collect()
FilterEmpty(ws) == SelectSeq(ws, IsNonEmpty)

\* the last statement of split, on what the loop returned
split_collect(r) ==
    IF r.panic THEN r ELSE [panic |-> FALSE, words |-> FilterEmpty(r.words)]

\* split on a non-empty string whose grapheme_indices are known
split_graphemes(s, bs, indices) ==
    split_collect(split_loop(s, bs, indices,
                             indices[Len(s)] + ByteLen(s[Len(s)]), 0, <<>>, 0))

\* a split that returns one empty word for the empty string
split_empty_as_one_word(s, bs) ==
    IF Len(s) = 0
    THEN [panic |-> FALSE, words |-> <<<<>>>>]
    ELSE split_graphemes(s, bs, grapheme_indices(s))

\* split(s, boundaries): [panic, words]
split(s, bs) ==
    IF Len(s) = 0
    THEN [panic |-> FALSE, words |-> <<>>]
    ELSE split_graphemes(s, bs, grapheme_indices(s))

----------------------------------------------------------------------------
(* pattern.rs *)

\* word_pattern::lowercase / uppercase
word_lowercase(word) == to_lowercase(word)
word_uppercase(word) == to_uppercase(word)

\* a capital that leaves the graphemes after the first as they are
word_capital_first_only(word) ==
    IF word = <<>> THEN <<>> ELSE to_uppercase(<<Head(word)>>) \o Tail(word)

\* word_pattern::capital
word_capital(word) ==
    IF word = <<>> THEN <<>>
    ELSE to_uppercase(<<Head(word)>>) \o to_lowercase(Tail(word))

\* word_pattern::toggle
word_toggle(word) ==
    IF word = <<>> THEN <<>>
    ELSE to_lowercase(<<Head(word)>>) \o to_uppercase(Tail(word))

\* char::is_uppercase() || char::is_lowercase(), on the model's graphemes,
\* each of which is one char
char_is_cased(letter) ==
    letter \in Range(UpperLetters) \cup Range(LowerLetters) \cup {"sz"}

\* one step of the inner closure of Alternating on a char: the char it
\* returns and the `upper` flag it leaves
alternating_char(letter, upper) ==
    IF char_is_cased(letter)
    THEN [word |-> IF upper THEN to_uppercase_map[letter] ELSE to_lowercase_map[letter],
          upper |-> ~upper]
    ELSE [word |-> <<letter>>, upper |-> upper]

RECURSIVE alternating_word(_, _, _)
\* the inner closure over the chars of one word: [word, upper], done being
\* what the chars before gave
alternating_word(word, upper, done) ==
    IF word = <<>> THEN [word |-> done, upper |-> upper]
    ELSE alternating_word(Tail(word), alternating_char(Head(word), upper).upper,
                          done \o alternating_char(Head(word), upper).word)

\* an outer map that starts every word with the flag it was given
alternating_words_restarting(ws, upper, done) ==
    done \o [k \in 1..Len(ws) |-> alternating_word(ws[k], upper, <<>>).word]

RECURSIVE alternating_words(_, _, _)
\* the outer map over the words, the flag carried from word to word
alternating_words(ws, upper, done) ==
    IF ws = <<>> THEN done
    ELSE alternating_words(Tail(ws),
                           alternating_word(Head(ws), upper, <<>>).upper,
                           Append(done, alternating_word(Head(ws), upper, <<>>).word))

PatternNames == {"Noop", "Lowercase", "Uppercase", "Capital", "Camel",
                 "Sentence", "Toggle", "Alternating", "RemoveEmpty"}

\* Pattern::RemoveEmpty is used by converter.rs and lib.rs but is not a
\* variant of the Pattern enum in pattern.rs: it drops the empty words
RemoveEmpty_mutate(ws) == SelectSeq(ws, IsNonEmpty)

\* Pattern::mutate
mutate(p, ws) ==
    CASE p = "Noop" -> ws
      [] p = "Lowercase" -> [i \in 1..Len(ws) |-> word_lowercase(ws[i])]
      [] p = "Uppercase" -> [i \in 1..Len(ws) |-> word_uppercase(ws[i])]
      [] p = "Capital" -> [i \in 1..Len(ws) |-> word_capital(ws[i])]
      [] p = "Camel" ->
            [i \in 1..Len(ws) |->
                IF i = 1 THEN word_lowercase(ws[i]) ELSE word_capital(ws[i])]
      [] p = "Sentence" ->
            [i \in 1..Len(ws) |->
                IF i = 1 THEN word_capital(ws[i]) ELSE word_lowercase(ws[i])]
      [] p = "Toggle" -> [i \in 1..Len(ws) |-> word_toggle(ws[i])]
      [] p = "Alternating" -> alternating_words(ws, FALSE, <<>>)
      [] p = "RemoveEmpty" -> RemoveEmpty_mutate(ws)

RECURSIVE join(_, _)
\* [String]::join(sep)
join(ws, sep) ==
    IF ws = <<>> THEN <<>>
    ELSE IF Len(ws) = 1 THEN ws[1]
    ELSE ws[1] \o sep \o join(Tail(ws), sep)

----------------------------------------------------------------------------
(* case.rs: Case *)

\* Case::all_cases (the deterministic cases)
Cases == {"Upper", "Lower", "Title", "Sentence", "Toggle", "Camel", "Pascal",
          "UpperCamel", "Snake", "Constant", "Ada", "UpperSnake", "Kebab",
          "Cobol", "UpperKebab", "Train", "Flat", "UpperFlat", "Alternating"}

\* boundaries that are the underscore for every case
Case_boundaries_all_underscore(case) == <<Underscore>>

\* Case::boundaries
Case_boundaries(case) ==
    CASE case \in {"Upper", "Lower", "Title", "Sentence", "Toggle", "Alternating"} ->
            <<Space>>
      [] case \in {"Snake", "Constant", "UpperSnake", "Ada"} -> <<Underscore>>
      [] case \in {"Kebab", "Cobol", "UpperKebab", "Train"} -> <<Hyphen>>
      [] case \in {"UpperFlat", "Flat"} -> <<>>
      [] case \in {"Camel", "UpperCamel", "Pascal"} ->
            <<LowerUpper, Acronym, LowerDigit, UpperDigit, DigitLower, DigitUpper>>

\* a delim that gives Ada the hyphen of Train
Case_delim_ada_hyphen(case) ==
    CASE case \in {"Upper", "Lower", "Title", "Sentence", "Toggle", "Alternating"} ->
            <<" ">>
      [] case \in {"Snake", "Constant", "UpperSnake"} -> <<"_">>
      [] case \in {"Kebab", "Cobol", "UpperKebab", "Train", "Ada"} -> <<"-">>
      [] case \in {"UpperFlat", "Flat", "Camel", "UpperCamel", "Pascal"} -> <<>>

\* Case::delim (Case::delimiter)
Case_delim(case) ==
    CASE case \in {"Upper", "Lower", "Title", "Sentence", "Toggle", "Alternating"} ->
            <<" ">>
      [] case \in {"Snake", "Constant", "UpperSnake", "Ada"} -> <<"_">>
      [] case \in {"Kebab", "Cobol", "UpperKebab", "Train"} -> <<"-">>
      [] case \in {"UpperFlat", "Flat", "Camel", "UpperCamel", "Pascal"} -> <<>>

\* a pattern that takes UpperCamel for Camel
Case_pattern_upper_camel_as_camel(case) ==
    CASE case \in {"Upper", "Constant", "UpperSnake", "UpperFlat", "Cobol",
                   "UpperKebab"} -> "Uppercase"
      [] case \in {"Lower", "Snake", "Kebab", "Flat"} -> "Lowercase"
      [] case \in {"Title", "Pascal", "Train", "Ada"} -> "Capital"
      [] case \in {"Camel", "UpperCamel"} -> "Camel"
      [] case = "Toggle" -> "Toggle"
      [] case = "Alternating" -> "Alternating"
      [] case = "Sentence" -> "Sentence"

\* Case::pattern
Case_pattern(case) ==
    CASE case \in {"Upper", "Constant", "UpperSnake", "UpperFlat", "Cobol",
                   "UpperKebab"} -> "Uppercase"
      [] case \in {"Lower", "Snake", "Kebab", "Flat"} -> "Lowercase"
      [] case \in {"Title", "Pascal", "UpperCamel", "Train", "Ada"} -> "Capital"
      [] case = "Camel" -> "Camel"
      [] case = "Toggle" -> "Toggle"
      [] case = "Alternating" -> "Alternating"
      [] case = "Sentence" -> "Sentence"

----------------------------------------------------------------------------
(* converter.rs: Converter *)

\* Converter::default / Converter::new
Converter_new ==
    [boundaries |-> Boundary_defaults, patterns |-> <<>>, delimiter |-> <<>>]

\* a convert that stops after the first pattern
convert_patterns_first_only(ps, k, result) == result

\* the loop `for pattern in &self.patterns[1..]` from index k on
RECURSIVE convert_patterns(_, _, _)
convert_patterns(ps, k, result) ==
    IF k > Len(ps) THEN result
    ELSE convert_patterns(ps, k + 1, mutate(ps[k], result))

\* Converter::convert after split returned r: [st, words, val]; st is
\* "panic" when split panicked
convert_words(c, r) ==
    IF r.panic THEN [st |-> "panic", words |-> <<>>, val |-> <<>>]
    ELSE IF c.patterns = <<>>
    THEN [st |-> "ok", words |-> r.words, val |-> join(r.words, c.delimiter)]
    ELSE [st |-> "ok", words |-> r.words,
          val |-> join(convert_patterns(c.patterns, 2, mutate(c.patterns[1], r.words)),
                       c.delimiter)]

\* Converter::convert
Converter_convert(c, s) == convert_words(c, split(s, c.boundaries))

\* a to_case that replaces the pattern list
Converter_to_case_replacing(c, case) ==
    [c EXCEPT !.patterns = <<Case_pattern(case)>>, !.delimiter = Case_delim(case)]

\* Converter::to_case
Converter_to_case(c, case) ==
    [c EXCEPT !.patterns = Append(c.patterns, Case_pattern(case)),
              !.delimiter = Case_delim(case)]

\* a from_case that also forgets the patterns
Converter_from_case_resetting(c, case) ==
    [c EXCEPT !.boundaries = Case_boundaries(case), !.patterns = <<>>]

\* Converter::from_case
Converter_from_case(c, case) == [c EXCEPT !.boundaries = Case_boundaries(case)]

\* Converter::set_boundaries
Converter_set_boundaries(c, bs) == [c EXCEPT !.boundaries = bs]

\* Converter::add_boundary
\* an add_boundary that skips a boundary the list already holds
Converter_add_boundary_once(c, b) ==
    IF \E k \in 1..Len(c.boundaries) : c.boundaries[k] = b
    THEN c
    ELSE [c EXCEPT !.boundaries = Append(c.boundaries, b)]

Converter_add_boundary(c, b) == [c EXCEPT !.boundaries = Append(c.boundaries, b)]

\* Converter::add_boundaries
Converter_add_boundaries(c, bs) == [c EXCEPT !.boundaries = c.boundaries \o bs]

\* the position of the first x in seq
IndexOfFirst(seq, x) ==
    CHOOSE k \in 1..Len(seq) : seq[k] = x /\ \A j \in 1..(k - 1) : seq[j] # x

\* a retain that drops the first occurrence of x only
Retain_first_only(seq, x) ==
    IF \E k \in 1..Len(seq) : seq[k] = x
    THEN SubSeq(seq, 1, IndexOfFirst(seq, x) - 1)
             \o SubSeq(seq, IndexOfFirst(seq, x) + 1, Len(seq))
    ELSE seq

\* self.boundaries.retain(|&x| x != b)
Retain(seq, x) == LET Keep(y) == y # x IN SelectSeq(seq, Keep)

\* Converter::remove_boundary
Converter_remove_boundary(c, b) == [c EXCEPT !.boundaries = Retain(c.boundaries, b)]

RECURSIVE RetainAll(_, _)
RetainAll(seq, xs) ==
    IF xs = <<>> THEN seq ELSE RetainAll(Retain(seq, Head(xs)), Tail(xs))

\* Converter::remove_boundaries
Converter_remove_boundaries(c, bs) ==
    [c EXCEPT !.boundaries = RetainAll(c.boundaries, bs)]

\* Converter::set_pattern
Converter_set_pattern(c, p) == [c EXCEPT !.patterns = <<p>>]

\* Converter::set_patterns
Converter_set_patterns(c, ps) == [c EXCEPT !.patterns = ps]

\* an add_pattern that forgets to push
Converter_add_pattern_ignoring(c, p) == c

\* Converter::add_pattern
Converter_add_pattern(c, p) == [c EXCEPT !.patterns = Append(c.patterns, p)]

\* Converter::add_patterns
Converter_add_patterns(c, ps) == [c EXCEPT !.patterns = c.patterns \o ps]

\* Converter::remove_pattern
Converter_remove_pattern(c, p) == [c EXCEPT !.patterns = Retain(c.patterns, p)]

\* Converter::remove_patterns
Converter_remove_patterns(c, ps) == [c EXCEPT !.patterns = RetainAll(c.patterns, ps)]

\* a set_delimiter that leaves the delimiter as it was
Converter_set_delimiter_ignoring(c, d) == c

\* Converter::set_delimiter
Converter_set_delimiter(c, d) == [c EXCEPT !.delimiter = d]

----------------------------------------------------------------------------
(* The arguments the callers of the model pass *)

S_ohMy == <<"o", "h", "M", "y">>
S_a3colons_b == <<"a", ":", ":", ":", "b">>
S_sz == <<"sz">>
S_leading == <<"_", "a", "-", "b">>
S_a_arrow_bc == <<"a", "arrow", "b", "c">>
S_a3colons == <<"a", ":", ":", ":">>

\* the strings convert is called on under Spec
Inputs == {S_ohMy, S_a3colons_b, S_sz, S_leading, S_a_arrow_bc, S_a3colons}

DoubleColon == from_delim(<<":", ":">>)
Arrow == from_delim(<<"arrow">>)

SetBoundariesArgs == {<<>>, <<DoubleColon>>, <<Arrow>>}
AddBoundaryArgs == {Hyphen, UpperLower}
AddBoundariesArgs == {<<LowerUpper, UpperLower>>}
RemoveBoundaryArgs == {Hyphen, Acronym}
RemoveBoundariesArgs == {Boundary_digits}
SetPatternArgs == {"Sentence"}
SetPatternsArgs == {<<>>, <<"Camel", "RemoveEmpty">>}
AddPatternArgs == {"RemoveEmpty", "Camel"}
AddPatternsArgs == {<<"RemoveEmpty", "Lowercase">>}
RemovePatternArgs == {"Lowercase"}
RemovePatternsArgs == {<<"Lowercase", "Capital">>}
SetDelimiterArgs == {<<>>, <<".", ".">>}

----------------------------------------------------------------------------
(* The Converter as a state machine: builder calls and convert *)

NoOutput == [st |-> "none", val |-> <<>>]

Init ==
    /\ boundaries = Converter_new.boundaries
    /\ patterns = Converter_new.patterns
    /\ delimiter = Converter_new.delimiter
    /\ calls = 0
    /\ input = <<>>
    /\ words = <<>>
    /\ output = NoOutput

\* a builder call consumes the converter and returns the rebuilt one
Rebuild(c) ==
    /\ calls' = calls + 1
    /\ boundaries' = c.boundaries
    /\ patterns' = c.patterns
    /\ delimiter' = c.delimiter
    /\ words' = <<>>
    /\ output' = NoOutput

Build(c) == calls < MaxCalls /\ Rebuild(c) /\ input' = <<>>

ToCase(case) == Build(Converter_to_case(conv, case))
FromCase(case) == Build(Converter_from_case(conv, case))
SetBoundaries(bs) == Build(Converter_set_boundaries(conv, bs))
AddBoundary(b) == Build(Converter_add_boundary(conv, b))
AddBoundaries(bs) == Build(Converter_add_boundaries(conv, bs))
RemoveBoundary(b) == Build(Converter_remove_boundary(conv, b))
RemoveBoundaries(bs) == Build(Converter_remove_boundaries(conv, bs))
SetPattern(p) == Build(Converter_set_pattern(conv, p))
SetPatterns(ps) == Build(Converter_set_patterns(conv, ps))
AddPattern(p) == Build(Converter_add_pattern(conv, p))
AddPatterns(ps) == Build(Converter_add_patterns(conv, ps))
RemovePattern(p) == Build(Converter_remove_pattern(conv, p))
RemovePatterns(ps) == Build(Converter_remove_patterns(conv, ps))
SetDelimiter(d) == Build(Converter_set_delimiter(conv, d))

\* the string r that convert returned for s
Returned(s, r) ==
    /\ input' = s
    /\ words' = r.words
    /\ output' = [st |-> r.st, val |-> r.val]

\* c.convert(s): reads the converter c, returns a fresh string
Converted(c, s) == Returned(s, Converter_convert(c, s))

\* a convert that drains the pattern list it applied
Convert_draining(s) ==
    /\ Converted(conv, s)
    /\ patterns' = <<>>
    /\ UNCHANGED <<boundaries, delimiter, calls>>

Convert(s) == Converted(conv, s) /\ UNCHANGED <<boundaries, patterns, delimiter, calls>>

Next ==
    \/ \E case \in Cases : ToCase(case)
    \/ \E case \in Cases : FromCase(case)
    \/ \E bs \in SetBoundariesArgs : SetBoundaries(bs)
    \/ \E b \in AddBoundaryArgs : AddBoundary(b)
    \/ \E bs \in AddBoundariesArgs : AddBoundaries(bs)
    \/ \E b \in RemoveBoundaryArgs : RemoveBoundary(b)
    \/ \E bs \in RemoveBoundariesArgs : RemoveBoundaries(bs)
    \/ \E p \in SetPatternArgs : SetPattern(p)
    \/ \E ps \in SetPatternsArgs : SetPatterns(ps)
    \/ \E p \in AddPatternArgs : AddPattern(p)
    \/ \E ps \in AddPatternsArgs : AddPatterns(ps)
    \/ \E p \in RemovePatternArgs : RemovePattern(p)
    \/ \E ps \in RemovePatternsArgs : RemovePatterns(ps)
    \/ \E d \in SetDelimiterArgs : SetDelimiter(d)
    \/ \E s \in Inputs : Convert(s)

Spec == Init /\ [][Next]_vars

----------------------------------------------------------------------------
(* lib.rs: the Casing trait and StateConverter, on one string *)

RECURSIVE StringsOver(_, _)
\* the strings of at most n graphemes of the set alphabet
StringsOver(alphabet, n) ==
    IF n = 0 THEN {<<>>}
    ELSE LET shorter == StringsOver(alphabet, n - 1)
         IN  shorter \cup {Append(s, g) : s \in shorter, g \in alphabet}

\* lib.rs, test lossless_against_lossless: one word list written in each
\* lossless case
lossless_examples ==
    [Snake |-> <<"m", "y", "_", "v", "a", "r", "i", "a", "b", "l", "e", "_", "2", "2", "_", "n", "a", "m", "e">>,
     Constant |-> <<"M", "Y", "_", "V", "A", "R", "I", "A", "B", "L", "E", "_", "2", "2", "_", "N", "A", "M", "E">>,
     Ada |-> <<"M", "y", "_", "V", "a", "r", "i", "a", "b", "l", "e", "_", "2", "2", "_", "N", "a", "m", "e">>,
     Kebab |-> <<"m", "y", "-", "v", "a", "r", "i", "a", "b", "l", "e", "-", "2", "2", "-", "n", "a", "m", "e">>,
     Cobol |-> <<"M", "Y", "-", "V", "A", "R", "I", "A", "B", "L", "E", "-", "2", "2", "-", "N", "A", "M", "E">>,
     Train |-> <<"M", "y", "-", "V", "a", "r", "i", "a", "b", "l", "e", "-", "2", "2", "-", "N", "a", "m", "e">>,
     Pascal |-> <<"M", "y", "V", "a", "r", "i", "a", "b", "l", "e", "2", "2", "N", "a", "m", "e">>,
     Camel |-> <<"m", "y", "V", "a", "r", "i", "a", "b", "l", "e", "2", "2", "N", "a", "m", "e">>,
     Lower |-> <<"m", "y", " ", "v", "a", "r", "i", "a", "b", "l", "e", " ", "2", "2", " ", "n", "a", "m", "e">>,
     Upper |-> <<"M", "Y", " ", "V", "A", "R", "I", "A", "B", "L", "E", " ", "2", "2", " ", "N", "A", "M", "E">>,
     Title |-> <<"M", "y", " ", "V", "a", "r", "i", "a", "b", "l", "e", " ", "2", "2", " ", "N", "a", "m", "e">>,
     Sentence |-> <<"M", "y", " ", "v", "a", "r", "i", "a", "b", "l", "e", " ", "2", "2", " ", "n", "a", "m", "e">>]

\* lib.rs, test leading_tailing_double_delimiters: the identifiers built
\* from the words first, second and the delimiter delim
delimited_identifiers(delim) ==
    LET single == <<"f", "i", "r", "s", "t">> \o delim \o <<"s", "e", "c", "o", "n", "d">>
        double == <<"f", "i", "r", "s", "t">> \o delim \o delim \o <<"s", "e", "c", "o", "n", "d">>
    IN  {delim \o single, single \o delim, delim \o single \o delim, double,
         delim \o double, double \o delim, delim \o double \o delim}

S_HTTPRequest == <<"H", "T", "T", "P", "R", "e", "q", "u", "e", "s", "t">>
S_XMLHttpRequest == <<"X", "M", "L", "H", "t", "t", "p", "R", "e", "q", "u", "e", "s", "t">>
S_word2vec == <<"w", "o", "r", "d", "2", "v", "e", "c">>
S_8a8A8 == <<"8", "a", "8", "A", "8">>
S_v2dot0 == <<"v", "2", ".", "0">>
S_szet == <<"sz", "a">>
S_delims == <<"_", "-", " ">>
S_leading_delims ==
    <<"-", "-", "l", "e", "a", "d", "i", "n", "g", "-", "d", "e", "l", "i", "m", "s">>
S_empty_first_word ==
    <<"_", "e", "m", "p", "t", "y", "_", "_", "f", "i", "r", "s", "t", "_", "w", "o", "r", "d">>
S_Another_Example ==
    <<"A", "n", "o", "t", "h", "e", "r", " ", "E", "x", "a", "m", "p", "l", "e">>

Examples ==
    Range(lossless_examples)
        \cup delimited_identifiers(<<"_">>) \cup delimited_identifiers(<<"-">>)
        \cup delimited_identifiers(<<" ">>)
        \cup {S_HTTPRequest, S_XMLHttpRequest, S_word2vec, S_8a8A8, S_v2dot0,
              S_sz, S_szet, S_delims, S_ohMy, S_leading_delims, S_empty_first_word,
              S_Another_Example}

\* the strings the Casing methods are called on under SpecCasing
CasingInputs ==
    StringsOver({"a", "A", "1"}, MaxLen)
        \cup StringsOver({"a", "A", "1", "_", "-", " ", "."}, MaxShort)
        \cup Examples

CasingBoundariesArgs == {<<Acronym>>, <<Acronym, UpperLower>>}

\* StateConverter::new(s): the string and Converter::new()
InitCasing ==
    /\ input \in CasingInputs
    /\ boundaries = Converter_new.boundaries
    /\ patterns = Converter_new.patterns
    /\ delimiter = Converter_new.delimiter
    /\ calls = 0
    /\ words = <<>>
    /\ output = NoOutput

\* Casing::from_case (StateConverter::new(self).from_case(case))
Casing_from_case(case) ==
    /\ calls = 0
    /\ Rebuild(Converter_from_case(conv, case))
    /\ UNCHANGED input

\* Casing::set_boundaries (StateConverter::new(self).set_boundaries(bs))
Casing_set_boundaries(bs) ==
    /\ calls = 0
    /\ Rebuild(Converter_set_boundaries(conv, bs))
    /\ UNCHANGED input

\* Casing::remove_empty / StateConverter::remove_empty:
\* self.conv.add_pattern(Pattern::RemoveEmpty), once in a chain
StateConverter_remove_empty ==
    /\ patterns = <<>>
    /\ output.st = "none"
    /\ Rebuild(Converter_add_pattern(conv, "RemoveEmpty"))
    /\ UNCHANGED input

\* StateConverter::to_case, and Casing::to_case on a fresh StateConverter:
\* self.conv.to_case(case).convert(self.s); it ends the chain
StateConverter_to_case(case) ==
    /\ output.st = "none"
    /\ calls' = calls + 1
    /\ boundaries' = Converter_to_case(conv, case).boundaries
    /\ patterns' = Converter_to_case(conv, case).patterns
    /\ delimiter' = Converter_to_case(conv, case).delimiter
    /\ Converted(Converter_to_case(conv, case), input)

NextCasing ==
    \/ \E case \in Cases : Casing_from_case(case)
    \/ \E bs \in CasingBoundariesArgs : Casing_set_boundaries(bs)
    \/ StateConverter_remove_empty
    \/ \E case \in Cases : StateConverter_to_case(case)

SpecCasing == InitCasing /\ [][NextCasing]_vars

----------------------------------------------------------------------------
(* boundary.rs: Boundary::defaults_from, on one string *)

\* the test of defaults_from on the parts split returned for one boundary
defaults_from_identified(pattern, parts) ==
    \/ Len(parts.words) > 1
    \/ Len(parts.words) = 0
    \/ parts.words[1] # pattern

\* Boundary::defaults_from: the defaults, in their order, that pass the test
\* (split with one built-in boundary does not panic)
defaults_from(pattern) ==
    LET Identified(boundary) ==
            defaults_from_identified(pattern, split(pattern, <<boundary>>))
    IN  SelectSeq(Boundary_defaults, Identified)

\* boundary.rs, test boundaries_found_in_string
boundaries_found_in_string ==
    {<<".", "A", "a", "a", "a">>,
     <<"a", "8", ".", "A", "a", ".", "a", "A">>,
     <<"b", "1", "B", "1", "b">>,
     <<"A", "A", "a", " ", "-", "_">>}

\* the strings defaults_from is called on under SpecDefaultsFrom
DefaultsFromInputs == CasingInputs \cup boundaries_found_in_string

\* before the call: the string alone, no list returned yet
InitDefaultsFrom ==
    /\ input \in DefaultsFromInputs
    /\ boundaries = <<>>
    /\ patterns = <<>>
    /\ delimiter = <<>>
    /\ calls = 0
    /\ words = <<>>
    /\ output = NoOutput

\* Boundary::defaults_from(input): boundaries holds the list returned
DefaultsFrom ==
    /\ calls = 0
    /\ calls' = 1
    /\ boundaries' = defaults_from(input)
    /\ output' = [st |-> "ok", val |-> <<>>]
    /\ UNCHANGED <<input, patterns, delimiter, words>>

NextDefaultsFrom == DefaultsFrom

SpecDefaultsFrom == InitDefaultsFrom /\ [][NextDefaultsFrom]_vars

----------------------------------------------------------------------------
(* lib.rs, test appropriate_associated_boundaries: a word list written in a
   case *)

\* the word lists of the test
word_groups ==
    {<<<<"m", "y">>, <<"v", "a", "r">>, <<"n", "a", "m", "e">>>>,
     <<<<"M", "Y">>, <<"v", "a", "r">>, <<"N", "a", "m", "e">>>>,
     <<<<"a", "n", "o", "t", "h", "e", "r">>, <<"v", "A", "R">>>>,
     <<<<"X", "M", "L">>, <<"H", "T", "T", "P">>, <<"R", "e", "q", "u", "e", "s", "t">>>>}

\* the words the other word lists are made of
Vocabulary ==
    {<<"a">>, <<"B">>, <<"a", "b">>, <<"a", "B">>, <<"A", "B">>, <<"A", "b", "c">>}

MaxWords == MaxShort + 1

\* the lists of at most n words of the vocabulary
WordListsOver(n) == UNION {[1..k -> Vocabulary] : k \in 0..n}

WrittenWordLists == word_groups \cup WordListsOver(MaxWords)

\* a word list, nothing written yet
InitWritten ==
    /\ words \in WrittenWordLists
    /\ input = <<>>
    /\ boundaries = <<>>
    /\ patterns = <<>>
    /\ delimiter = <<>>
    /\ calls = 0
    /\ output = NoOutput

\* case.pattern().mutate(words).join(case.delimiter()): the identifier is in
\* input, next to the boundaries, pattern and delimiter of the case
WriteInCase(case) ==
    /\ calls = 0
    /\ calls' = 1
    /\ boundaries' = Case_boundaries(case)
    /\ patterns' = <<Case_pattern(case)>>
    /\ delimiter' = Case_delim(case)
    /\ input' = join(mutate(Case_pattern(case), words), Case_delim(case))
    /\ output' = [st |-> "ok", val |-> input']
    /\ UNCHANGED words

NextWritten == \E case \in Cases : WriteInCase(case)

SpecWritten == InitWritten /\ [][NextWritten]_vars

----------------------------------------------------------------------------
(* Claims *)

RECURSIVE ThroughPatterns(_, _)
\* ws passed through the patterns of ps one after another, in list order:
\* the last pattern is applied to what the patterns before it returned
ThroughPatterns(ps, ws) ==
    IF ps = <<>> THEN ws
    ELSE mutate(ps[Len(ps)], ThroughPatterns(SubSeq(ps, 1, Len(ps) - 1), ws))

\* C1: whatever the converter's boundaries, patterns and delimiter, the
\* string convert returns is the words of split(input, boundaries), passed
\* through the patterns in list order and joined with the delimiter (the
\* words unchanged when there is no pattern); convert returns nothing only
\* when split itself panics.
C1_ConvertIsSplitMutateJoin ==
    output.st # "none" =>
        LET r == split(input, boundaries)
        IN  IF r.panic THEN output.st = "panic"
            ELSE /\ output.st = "ok"
                 /\ words = r.words
                 /\ output.val = join(ThroughPatterns(patterns, r.words), delimiter)

\* to_case(Camel).to_case(Snake) on "ohMy": two patterns that disagree on
\* the second word, and a delimiter
C1_Witness ==
    /\ output.st = "ok"
    /\ input = S_ohMy
    /\ patterns = <<"Camel", "Lowercase">>
    /\ delimiter = <<"_">>
    /\ output.val = <<"o", "h", "_", "m", "y">>

\* C2: convert never panics: for every configuration and input, split's
\* byte ranges have start <= end and convert returns a string.
C2_NeverPanics == output.st # "panic"

\* the state after to_case(case) returned: the converter writes with the
\* pattern and the delimiter of case, and nothing else
WritesAs(case) ==
    /\ output.st # "none"
    /\ patterns = <<Case_pattern(case)>>
    /\ delimiter = Case_delim(case)

DelimitedCases == {"Snake", "Kebab", "Lower"}

\* C3: with no remove-empty step the empty words of leading, trailing and
\* doubled delimiters are kept: for C in Snake, Kebab, Lower and every
\* identifier of lowercase words joined by C's delimiter with an extra
\* leading, trailing and/or doubled delimiter, to_case(C) and
\* from_case(C).to_case(C) return the identifier unchanged; and the words
\* of a string made only of delimiters are all empty.
C3_EmptyWordsKept ==
    /\ \A C \in DelimitedCases :
          (/\ WritesAs(C)
           /\ input \in delimited_identifiers(Case_delim(C))
           /\ boundaries \in {Boundary_defaults, Case_boundaries(C)})
          => (output.st = "ok" /\ output.val = input)
    /\ (/\ output.st = "ok"
        /\ boundaries = Boundary_defaults
        /\ \A i \in 1..Len(input) : input[i] \in {"_", "-", " "})
       => \A k \in 1..Len(words) : words[k] = <<>>

IsAscii(s) == \A i \in 1..Len(s) : ByteLen(s[i]) = 1

\* the converter reads and writes as case, and returned output.val
ReadAndWrittenAs(case) ==
    /\ WritesAs(case)
    /\ boundaries = Case_boundaries(case)
    /\ output.st = "ok"

\* f(output.val) = output.val for f(x) = conv.convert(x)
OutputIsFixed == Converter_convert(conv, output.val).val = output.val

UndelimitedCapitalCases == {"Camel", "Pascal", "UpperCamel"}

\* C4 (as stated): for every named case C and every string s,
\* f(x) = x.from_case(C).to_case(C) is idempotent: f(f(s)) = f(s).
C4_Idempotent ==
    \A C \in Cases : ReadAndWrittenAs(C) => OutputIsFixed

\* C4 (amended): for every named case C other than Camel, Pascal and
\* UpperCamel and every ASCII string s, f(x) = x.from_case(C).to_case(C) is
\* idempotent: f(f(s)) = f(s).
C4_IdempotentDelimitedAscii ==
    \A C \in Cases \ UndelimitedCapitalCases :
        (ReadAndWrittenAs(C) /\ IsAscii(input)) => OutputIsFixed

\* "MY_VARIABLE_22_NAME".from_case(Snake).to_case(Snake)
C4_Witness ==
    /\ ReadAndWrittenAs("Snake")
    /\ input = lossless_examples.Constant
    /\ output.val = lossless_examples.Snake

LosslessCases == {"Snake", "Constant", "Ada", "Kebab", "Cobol", "Train",
                  "Pascal", "Camel", "Lower", "Upper", "Title", "Sentence"}

\* C5: for every pair of lossless cases A, B and the rendering str_X of
\* the one word list in each case X, str_B.to_case(A) = str_A and
\* str_B.from_case(B).to_case(A) = str_A.
C5_LosslessRoundTrip ==
    \A A \in LosslessCases, B \in LosslessCases :
        (/\ WritesAs(A)
         /\ input = lossless_examples[B]
         /\ boundaries \in {Boundary_defaults, Case_boundaries(B)})
        => (output.st = "ok" /\ output.val = lossless_examples[A])

\* "myVariable22Name".from_case(Camel).to_case(Title)
C5_Witness ==
    /\ WritesAs("Title")
    /\ input = lossless_examples.Camel
    /\ boundaries = Case_boundaries("Camel")
    /\ output.val = lossless_examples.Title

WriteSideStep ==
    \/ \E case \in Cases : ToCase(case)
    \/ \E p \in SetPatternArgs : SetPattern(p)
    \/ \E ps \in SetPatternsArgs : SetPatterns(ps)
    \/ \E p \in AddPatternArgs : AddPattern(p)
    \/ \E ps \in AddPatternsArgs : AddPatterns(ps)
    \/ \E p \in RemovePatternArgs : RemovePattern(p)
    \/ \E ps \in RemovePatternsArgs : RemovePatterns(ps)
    \/ \E d \in SetDelimiterArgs : SetDelimiter(d)

ReadSideStep ==
    \/ \E case \in Cases : FromCase(case)
    \/ \E bs \in SetBoundariesArgs : SetBoundaries(bs)
    \/ \E b \in AddBoundaryArgs : AddBoundary(b)
    \/ \E bs \in AddBoundariesArgs : AddBoundaries(bs)
    \/ \E b \in RemoveBoundaryArgs : RemoveBoundary(b)
    \/ \E bs \in RemoveBoundariesArgs : RemoveBoundaries(bs)

\* from_case(X).to_case(Y) and to_case(Y).from_case(X), called on the
\* converter c, build the same converter
BuildSame(c, X, Y) ==
    Converter_to_case(Converter_from_case(c, X), Y)
        = Converter_from_case(Converter_to_case(c, Y), X)

\* ... and the two converters convert s identically
ConvertSame(c, X, Y, s) ==
    Converter_convert(Converter_to_case(Converter_from_case(c, X), Y), s)
        = Converter_convert(Converter_from_case(Converter_to_case(c, Y), X), s)

\* C7: the write-side calls (to_case, set/add/remove_pattern(s),
\* set_delimiter) leave the boundary list unchanged, the read-side calls
\* (from_case, set/add/remove_boundary(-ies)) leave the pattern list and
\* the delimiter unchanged; and from_case(X).to_case(Y) and
\* to_case(Y).from_case(X) give the same converter from every reachable
\* one (each is reached by a builder call, before any convert), converting
\* every input identically from Converter::new().
C7_ReadWriteFrames ==
    /\ [][/\ WriteSideStep => boundaries' = boundaries
          /\ ReadSideStep => (patterns' = patterns /\ delimiter' = delimiter)]_vars
    /\ []((output.st = "none")
          => (\A X \in Cases, Y \in Cases :
                 /\ BuildSame(conv, X, Y)
                 /\ (calls = 0) => (\A s \in Inputs : ConvertSame(conv, X, Y, s))))

\* from_case(Snake) and to_case(Title), in either order, then convert
C7_Witness ==
    /\ calls = 2
    /\ boundaries = Case_boundaries("Snake")
    /\ patterns = <<Case_pattern("Title")>>
    /\ delimiter = Case_delim("Title")
    /\ input = S_leading
    /\ output.st = "ok"

InList(b, bs) == \E k \in 1..Len(bs) : bs[k] = b

DefaultBoundarySet ==
    {Underscore, Hyphen, Space, LowerUpper, LowerDigit, UpperDigit,
     DigitLower, DigitUpper, Acronym}

\* C8: a converter from Converter::new(), also after to_case calls, splits
\* with exactly the nine default boundaries, and UpperLower enters the
\* boundary list only by a from_case, set_boundaries, add_boundary or
\* add_boundaries call that names it.
C8_DefaultBoundaries ==
    /\ [](calls = 0 =>
            /\ Len(boundaries) = 9
            /\ Range(boundaries) = DefaultBoundarySet
            /\ ~InList(UpperLower, boundaries))
    /\ [][/\ (calls = 0 /\ \E case \in Cases : ToCase(case))
               => Range(boundaries') = DefaultBoundarySet
          /\ (InList(UpperLower, boundaries') /\ ~InList(UpperLower, boundaries))
               => \/ \E case \in Cases :
                        InList(UpperLower, Case_boundaries(case)) /\ FromCase(case)
                  \/ \E bs \in SetBoundariesArgs :
                        InList(UpperLower, bs) /\ SetBoundaries(bs)
                  \/ \E b \in AddBoundaryArgs : b = UpperLower /\ AddBoundary(b)
                  \/ \E bs \in AddBoundariesArgs :
                        InList(UpperLower, bs) /\ AddBoundaries(bs)]_vars

\* to_case(Snake) on a new converter, then convert("ohMy"): split at the
\* default LowerUpper boundary
C8_Witness ==
    /\ calls = 1
    /\ patterns = <<Case_pattern("Snake")>>
    /\ Range(boundaries) = DefaultBoundarySet
    /\ input = S_ohMy
    /\ output.val = <<"o", "h", "_", "m", "y">>

IsUpper(g) == g \in Range(UpperLetters)
IsLower(g) == g \in Range(LowerLetters) \cup {"sz"}
IsLetter(g) == IsUpper(g) \/ IsLower(g)
IsDigit(g) == g \in Digits
IsDelimiter(g) == g \in {"_", "-", " "}
IsNoDelimiter(g) == ~IsDelimiter(g)

RECURSIVE Concat(_)
\* the words written one after another
Concat(ws) == IF ws = <<>> THEN <<>> ELSE Head(ws) \o Concat(Tail(ws))

\* the number of graphemes in the first k words
PrefixLen(ws, k) == Len(Concat(SubSeq(ws, 1, k)))

\* where the words are cut: the numbers of graphemes before the second,
\* third, ... word
Cuts(ws) == {PrefixLen(ws, k) : k \in 1..(Len(ws) - 1)}

\* graphemes p and p+1 of s are uppercase and grapheme p+2 is lowercase
AcronymAt(s, p) ==
    /\ p + 2 <= Len(s)
    /\ IsUpper(s[p]) /\ IsUpper(s[p + 1]) /\ IsLower(s[p + 2])

CamelBoundaries ==
    {Case_boundaries("Camel"), Case_boundaries("Pascal"), Case_boundaries("UpperCamel")}

\* C9: with Acronym the only boundary, the words are the input cut exactly
\* between graphemes p and p+1 for every p with graphemes p, p+1 uppercase
\* and p+2 lowercase, nothing deleted.  Under Camel/Pascal/UpperCamel
\* boundaries nothing is deleted, two adjacent uppercase letters are cut
\* apart exactly when a lowercase letter follows them, and no cut falls
\* between an uppercase letter and a lowercase letter after it:
\* "HTTPRequest" gives "HTTP", "Request" and "XMLHttpRequest" gives snake
\* "xml_http_request".
C9_AcronymBoundary ==
    /\ (output.st # "none" /\ boundaries = <<Acronym>>)
       => /\ output.st = "ok"
          /\ Concat(words) = input
          /\ Cuts(words) = {p \in 1..Len(input) : AcronymAt(input, p)}
    /\ (output.st # "none" /\ boundaries \in CamelBoundaries)
       => /\ output.st = "ok"
          /\ Concat(words) = input
          /\ \A p \in 1..(Len(input) - 1) :
                /\ (IsUpper(input[p]) /\ IsUpper(input[p + 1]))
                   => (p \in Cuts(words) <=> AcronymAt(input, p))
                /\ (IsUpper(input[p]) /\ IsLower(input[p + 1]))
                   => p \notin Cuts(words)
          /\ input = S_HTTPRequest
             => words = <<<<"H", "T", "T", "P">>, <<"R", "e", "q", "u", "e", "s", "t">>>>
          /\ (input = S_XMLHttpRequest /\ WritesAs("Snake"))
             => output.val = <<"x", "m", "l", "_", "h", "t", "t", "p", "_",
                               "r", "e", "q", "u", "e", "s", "t">>

\* "XMLHttpRequest".from_case(Camel).to_case(Snake)
C9_Witness ==
    /\ input = S_XMLHttpRequest
    /\ boundaries = Case_boundaries("Camel")
    /\ WritesAs("Snake")
    /\ Len(words) = 3
    /\ output.val = <<"x", "m", "l", "_", "h", "t", "t", "p", "_",
                      "r", "e", "q", "u", "e", "s", "t">>

\* the input without its default delimiters
Stripped(s) == SelectSeq(s, IsNoDelimiter)

\* the number of graphemes among the first p of s that are no delimiter
Offset(s, p) == Len(Stripped(SubSeq(s, 1, p)))

\* graphemes a..b of s are a maximal run of digits
DigitRun(s, a, b) ==
    /\ a <= b
    /\ \A p \in a..b : IsDigit(s[p])
    /\ a > 1 => ~IsDigit(s[a - 1])
    /\ b < Len(s) => ~IsDigit(s[b + 1])

\* graphemes a..b of the input are one of the words
OwnWord(a, b) ==
    \E k \in 1..Len(words) :
        /\ words[k] = SubSeq(input, a, b)
        /\ PrefixLen(words, k - 1) = Offset(input, a - 1)

\* to_case was called on the string itself: the default boundaries
SplitByDefaults == output.st = "ok" /\ boundaries = Boundary_defaults

\* a cut at every letter/digit transition, none between two digits, only
\* the default delimiters deleted, and the two examples
DigitCuts ==
    /\ Concat(words) = Stripped(input)
    /\ \A p \in 1..(Len(input) - 1) :
          /\ ((IsLetter(input[p]) /\ IsDigit(input[p + 1]))
                 \/ (IsDigit(input[p]) /\ IsLetter(input[p + 1])))
             => Offset(input, p) \in Cuts(words)
          /\ (IsDigit(input[p]) /\ IsDigit(input[p + 1]))
             => Offset(input, p) \notin Cuts(words)
    /\ (input = S_word2vec /\ WritesAs("Title"))
       => output.val = <<"W", "o", "r", "d", " ", "2", " ", "V", "e", "c">>
    /\ (input = S_8a8A8 /\ WritesAs("Snake"))
       => output.val = <<"8", "_", "a", "_", "8", "_", "a", "_", "8">>

\* C10 (as stated): with the default boundaries every maximal run of
\* digits adjacent to a letter is a word of its own; a cut falls at every
\* letter/digit transition, nothing is deleted there, no cut falls between
\* two digits.
C10_DigitRunsAreWords ==
    SplitByDefaults =>
        /\ DigitCuts
        /\ \A a \in 1..Len(input), b \in 1..Len(input) :
              (/\ DigitRun(input, a, b)
               /\ \/ (a > 1 /\ IsLetter(input[a - 1]))
                  \/ (b < Len(input) /\ IsLetter(input[b + 1])))
              => OwnWord(a, b)

\* grapheme p of s is missing, a letter or a default delimiter
LetterOrDelimiterOrEnd(s, p) ==
    p \in 1..Len(s) => (IsLetter(s[p]) \/ IsDelimiter(s[p]))

\* C10 (amended): with the default boundaries every maximal run of digits
\* that has, on each side, a letter, a default delimiter or the end of the
\* string is a word of its own; a cut falls at every letter/digit
\* transition, nothing is deleted there, no cut falls between two digits.
C10_DigitRunsBetweenLettersAreWords ==
    SplitByDefaults =>
        /\ DigitCuts
        /\ \A a \in 1..Len(input), b \in 1..Len(input) :
              (/\ DigitRun(input, a, b)
               /\ LetterOrDelimiterOrEnd(input, a - 1)
               /\ LetterOrDelimiterOrEnd(input, b + 1))
              => OwnWord(a, b)

\* to_case("myVariable22Name", Snake): the run "22" between two letters
C10_Witness ==
    /\ SplitByDefaults
    /\ WritesAs("Snake")
    /\ input = lossless_examples.Camel
    /\ DigitRun(input, 11, 12)
    /\ OwnWord(11, 12)
    /\ output.val = lossless_examples.Snake

\* C11: for all named cases A and B, "".from_case(A).to_case(B) = "",
\* and split of the empty string returns no word for every boundary list.
C11_EmptyInput ==
    /\ split(<<>>, boundaries) = [panic |-> FALSE, words |-> <<>>]
    /\ (input = <<>> /\ output.st # "none")
       => (output.st = "ok" /\ words = <<>> /\ output.val = <<>>)

\* "".from_case(Camel).to_case(Title)
C11_Witness ==
    /\ input = <<>>
    /\ calls = 2
    /\ boundaries = Case_boundaries("Camel")
    /\ WritesAs("Title")
    /\ output = [st |-> "ok", val |-> <<>>]

\* to_case ended a chain in which remove_empty was called:
\* s.remove_empty().to_case(Y) or s.from_case(X).remove_empty().to_case(Y)
RemoveEmptyApplied ==
    /\ output.st # "none"
    /\ \/ calls = 3
       \/ calls = 2 /\ boundaries = Boundary_defaults

\* C12: with remove_empty before to_case(Y) the pattern list is
\* [RemoveEmpty, Y's pattern], no empty word reaches Y's pattern, and the
\* first non-empty word is word 0:
\* "--leading-delims".from_case(Kebab).remove_empty().to_case(Camel) is
\* "leadingDelims", "_empty__first_word".remove_empty().to_case(Camel) is
\* "emptyFirstWord", and every identifier of the words first, second with
\* extra leading, trailing or doubled delimiters becomes "firstSecond".
C12_RemoveEmptyFirst ==
    RemoveEmptyApplied =>
        /\ output.st = "ok"
        /\ Len(patterns) = 2 /\ patterns[1] = "RemoveEmpty"
        /\ output.val = join(mutate(patterns[2], SelectSeq(words, IsNonEmpty)), delimiter)
        /\ (input = S_leading_delims /\ boundaries = Case_boundaries("Kebab")
                /\ patterns[2] = "Camel" /\ delimiter = <<>>)
           => output.val = <<"l", "e", "a", "d", "i", "n", "g", "D", "e", "l", "i", "m", "s">>
        /\ (input = S_empty_first_word /\ boundaries = Boundary_defaults
                /\ patterns[2] = "Camel" /\ delimiter = <<>>)
           => output.val = <<"e", "m", "p", "t", "y", "F", "i", "r", "s", "t", "W", "o", "r", "d">>
        /\ \A C \in DelimitedCases :
              (/\ input \in delimited_identifiers(Case_delim(C))
               /\ boundaries \in {Boundary_defaults, Case_boundaries(C)}
               /\ patterns[2] = "Camel" /\ delimiter = <<>>)
              => output.val = <<"f", "i", "r", "s", "t", "S", "e", "c", "o", "n", "d">>

\* "--leading-delims".from_case(Kebab).remove_empty().to_case(Camel)
C12_Witness ==
    /\ calls = 3
    /\ input = S_leading_delims
    /\ boundaries = Case_boundaries("Kebab")
    /\ patterns = <<"RemoveEmpty", "Camel">>
    /\ output.val = <<"l", "e", "a", "d", "i", "n", "g", "D", "e", "l", "i", "m", "s">>

\* the table of the named cases, one row a case: the boundary set, the
\* delimiter and the pattern
CaseRow(bs, d, p) == [boundaries |-> bs, delim |-> d, pattern |-> p]

TransitionBoundarySet ==
    {LowerUpper, Acronym, LowerDigit, UpperDigit, DigitLower, DigitUpper}

CaseTable ==
    [Upper       |-> CaseRow({Space}, <<" ">>, "Uppercase"),
     Lower       |-> CaseRow({Space}, <<" ">>, "Lowercase"),
     Title       |-> CaseRow({Space}, <<" ">>, "Capital"),
     Sentence    |-> CaseRow({Space}, <<" ">>, "Sentence"),
     Toggle      |-> CaseRow({Space}, <<" ">>, "Toggle"),
     Alternating |-> CaseRow({Space}, <<" ">>, "Alternating"),
     Snake       |-> CaseRow({Underscore}, <<"_">>, "Lowercase"),
     Constant    |-> CaseRow({Underscore}, <<"_">>, "Uppercase"),
     UpperSnake  |-> CaseRow({Underscore}, <<"_">>, "Uppercase"),
     Ada         |-> CaseRow({Underscore}, <<"_">>, "Capital"),
     Kebab       |-> CaseRow({Hyphen}, <<"-">>, "Lowercase"),
     Cobol       |-> CaseRow({Hyphen}, <<"-">>, "Uppercase"),
     UpperKebab  |-> CaseRow({Hyphen}, <<"-">>, "Uppercase"),
     Train       |-> CaseRow({Hyphen}, <<"-">>, "Capital"),
     Camel       |-> CaseRow(TransitionBoundarySet, <<>>, "Camel"),
     Pascal      |-> CaseRow(TransitionBoundarySet, <<>>, "Capital"),
     UpperCamel  |-> CaseRow(TransitionBoundarySet, <<>>, "Capital"),
     Flat        |-> CaseRow({}, <<>>, "Lowercase"),
     UpperFlat   |-> CaseRow({}, <<>>, "Uppercase")]

\* C13: Case.boundaries(), Case.delim() and Case.pattern() return the
\* table's values for every named case, and from_case / to_case put
\* exactly these values into the converter.
C13_CaseTable ==
    /\ [](/\ DOMAIN CaseTable = Cases
          /\ \A c \in Cases :
                /\ Range(Case_boundaries(c)) = CaseTable[c].boundaries
                /\ Len(Case_boundaries(c)) = Cardinality(CaseTable[c].boundaries)
                /\ Case_delim(c) = CaseTable[c].delim
                /\ Case_pattern(c) = CaseTable[c].pattern)
    /\ [][\A c \in Cases :
            /\ FromCase(c) => Range(boundaries') = CaseTable[c].boundaries
            /\ ToCase(c) => /\ delimiter' = CaseTable[c].delim
                            /\ patterns'[Len(patterns')] = CaseTable[c].pattern]_vars

\* Converter::new().from_case(Camel).to_case(Ada), in either order
C13_Witness ==
    /\ calls = 2
    /\ Range(boundaries) = TransitionBoundarySet
    /\ patterns = <<"Capital">>
    /\ delimiter = <<"_">>

\* the aliased cases: <<alias, original>>
Aliases == {<<"UpperCamel", "Pascal">>, <<"UpperSnake", "Constant">>,
            <<"UpperKebab", "Cobol">>}

\* c.from_case(X).to_case(Y).convert(s)
FromTo(c, X, Y, s) ==
    Converter_convert(Converter_to_case(Converter_from_case(c, X), Y), s)

\* C14: for each pair (UpperCamel, Pascal), (UpperSnake, Constant),
\* (UpperKebab, Cobol) the two cases have the same boundaries, pattern and
\* delimiter; from_case and to_case with the alias build, from every
\* converter, the converter they build with the original; and for every
\* case X and input s, s.from_case(alias).to_case(X) and
\* s.from_case(X).to_case(alias) are what the original gives.
C14_Aliases ==
    \A pair \in Aliases :
        /\ Case_boundaries(pair[1]) = Case_boundaries(pair[2])
        /\ Case_pattern(pair[1]) = Case_pattern(pair[2])
        /\ Case_delim(pair[1]) = Case_delim(pair[2])
        /\ Converter_from_case(conv, pair[1]) = Converter_from_case(conv, pair[2])
        /\ Converter_to_case(conv, pair[1]) = Converter_to_case(conv, pair[2])
        /\ calls = 0 =>
              \A X \in Cases, s \in Inputs :
                  /\ FromTo(conv, pair[1], X, s) = FromTo(conv, pair[2], X, s)
                  /\ FromTo(conv, X, pair[1], s) = FromTo(conv, X, pair[2], s)

\* Converter::new().from_case(UpperCamel).to_case(UpperSnake).convert("ohMy")
C14_Witness ==
    /\ calls = 2
    /\ boundaries = Case_boundaries("UpperCamel")
    /\ WritesAs("UpperSnake")
    /\ input = S_ohMy
    /\ output.val = <<"O", "H", "_", "M", "Y">>
    /\ FromTo(Converter_new, "Pascal", "Constant", S_ohMy).val = output.val

\* C15: the Casing shortcuts agree with the explicit Converter:
\* s.to_case(C) is Converter::new().to_case(C).convert(s),
\* s.from_case(X).to_case(C) is
\* Converter::new().from_case(X).to_case(C).convert(s), and the converter
\* built by set_delimiter and set_patterns from C's delimiter and pattern
\* is the one to_case(C) builds.
C15_ShortcutsAgree ==
    /\ \A C \in Cases :
          /\ Converter_set_patterns(Converter_set_delimiter(Converter_new, Case_delim(C)),
                                    <<Case_pattern(C)>>)
                = Converter_to_case(Converter_new, C)
          /\ WritesAs(C)
             => /\ calls = 1 => conv = Converter_to_case(Converter_new, C)
                /\ calls = 2
                   => \A X \in Cases :
                         boundaries = Case_boundaries(X)
                         => conv = Converter_to_case(Converter_from_case(Converter_new, X), C)
    /\ (output.st # "none" /\ Len(patterns) = 1)
       => Converter_convert(conv, input) = [st |-> output.st, words |-> words, val |-> output.val]

\* "MyVariable22Name".from_case(Pascal).to_case(Kebab)
C15_Witness ==
    /\ calls = 2
    /\ input = lossless_examples.Pascal
    /\ boundaries = Case_boundaries("Pascal")
    /\ WritesAs("Kebab")
    /\ output.val = lossless_examples.Kebab
    /\ FromTo(Converter_new, "Pascal", "Kebab", input).val = output.val

\* C16: patterns run in the order they were configured, add_pattern(p)
\* putting p last and each pattern receiving what the one before returned;
\* and the order matters: on an input with a leading delimiter the lists
\* [Camel, RemoveEmpty] and [RemoveEmpty, Camel] give different outputs.
C16_PatternOrder ==
    /\ output.st = "ok"
       => output.val = join(ThroughPatterns(patterns, words), delimiter)
    /\ \A p \in AddPatternArgs :
          Converter_add_pattern(conv, p).patterns = patterns \o <<p>>
    /\ (/\ output.st = "ok"
        /\ boundaries = Boundary_defaults
        /\ input = S_leading
        /\ patterns = <<"Camel", "RemoveEmpty">>)
       => output.val
            # Converter_convert([conv EXCEPT !.patterns = <<"RemoveEmpty", "Camel">>],
                                input).val

Delims == {<<":", ":">>, <<"arrow">>}

\* the string w holds the string d
Contains(w, d) ==
    \E i \in 1..Len(w) : i + Len(d) - 1 <= Len(w) /\ SubSeq(w, i, i + Len(d) - 1) = d

\* the lists of at most three non-empty words without d, cut out of s
WordLists(s, d) ==
    LET pieces == {w \in {SubSeq(s, i, j) : i, j \in 1..Len(s)} :
                     w # <<>> /\ ~Contains(w, d)}
    IN  UNION {[1..n -> pieces] : n \in 1..3}

\* C18: from_delim(d) cuts at offset 0 and consumes exactly the graphemes of
\* d, counted in graphemes, whether d is ASCII or multi-byte; and whenever
\* the converter splits with [from_delim(d)] an input that is a list of
\* non-empty words without d joined by d, the split gives back those words.
C18_FromDelimSplitsJoined ==
    \A d \in Delims :
        (boundaries = <<from_delim(d)>> /\ output.st # "none")
        => /\ Contains(input, d)
              => /\ Boundary_start(boundaries[1]) = 0
                 /\ Boundary_len(boundaries[1]) = Len(d)
           /\ \A ws \in WordLists(input, d) :
                 input = join(ws, d) => (output.st = "ok" /\ words = ws)

\* grapheme p of s is uppercase and grapheme p+1 is lowercase
UpperLowerAt(s, p) ==
    /\ p + 1 <= Len(s)
    /\ IsUpper(s[p]) /\ IsLower(s[p + 1])

\* C19 as stated: with the boundaries [Acronym, UpperLower], no cut falls
\* between an uppercase and a lowercase grapheme when the grapheme before
\* them is uppercase too (the tail of an Acronym match), and "HTTPRequest"
\* splits into "HTTP", "Request".
C19_AcronymSuppressesUpperLower ==
    (output.st # "none" /\ boundaries = <<Acronym, UpperLower>>)
    => /\ \A p \in 2..Len(input) :
             (IsUpper(input[p - 1]) /\ UpperLowerAt(input, p)) => p \notin Cuts(words)
       /\ input = S_HTTPRequest
          => words = <<<<"H", "T", "T", "P">>, <<"R", "e", "q", "u", "e", "s", "t">>>>

\* C19: with the boundaries [Acronym, UpperLower], split tests both
\* boundaries at every position on their own: the words are the input cut
\* between graphemes p and p+1 exactly where p, p+1 are uppercase and p+2
\* lowercase (Acronym) or p is uppercase and p+1 lowercase (UpperLower),
\* nothing deleted; so the uppercase letter that follows an Acronym cut is a
\* word of its own and "HTTPRequest" splits into "HTTP", "R", "equest".
C19_UpperLowerFiresAfterAcronym ==
    (output.st # "none" /\ boundaries = <<Acronym, UpperLower>>)
    => /\ output.st = "ok"
       /\ Concat(words) = input
       /\ Cuts(words) = {p \in 1..Len(input) :
                            AcronymAt(input, p) \/ UpperLowerAt(input, p)}
       /\ input = S_HTTPRequest
          => words = <<<<"H", "T", "T", "P">>, <<"R">>,
                       <<"e", "q", "u", "e", "s", "t">>>>

\* "HTTPRequest" split with [Acronym, UpperLower]: the "R" stands alone
C19_Witness ==
    /\ input = S_HTTPRequest
    /\ boundaries = <<Acronym, UpperLower>>
    /\ output.st = "ok"
    /\ Len(words) = 3
    /\ words[2] = <<"R">>

RECURSIVE ScanSkipping(_, _, _, _)
\* the words of s from grapheme i on, cur being the open word, when a match
\* of the delimiter d closes the word and the scan resumes after the
\* graphemes of d
ScanSkipping(s, d, i, cur) ==
    IF i > Len(s) THEN <<cur>>
    ELSE IF starts_with(SubSeq(s, i, Len(s)), d)
    THEN <<cur>> \o ScanSkipping(s, d, i + Len(d), <<>>)
    ELSE ScanSkipping(s, d, i + 1, Append(cur, s[i]))

\* C20: after a match at position i split closes the word there, skips the
\* consumed graphemes and resumes behind them, testing no boundary inside
\* them: with the one boundary from_delim("::") every input splits into the
\* words between the leftmost non-overlapping "::", and "a:::b" into "a"
\* and ":b".
C20_ResumesAfterConsumed ==
    (output.st # "none" /\ boundaries = <<DoubleColon>>)
    => /\ output.st = "ok"
       /\ words = FilterEmpty(ScanSkipping(input, <<":", ":">>, 1, <<>>))
       /\ input = S_a3colons_b => words = <<<<"a">>, <<":", "b">>>>

\* a boundary of bs matches at position i (from 0) of s and its cut start
\* or its cut end lies past the last grapheme
MatchPastEnd(s, bs, i) ==
    LET m == FirstMatch(bs, SubSeq(s, i + 1, Len(s)))
    IN  /\ m # 0
        /\ i + Boundary_start(bs[m]) + Boundary_len(bs[m]) >= Len(s)

\* the string w is a run of consecutive graphemes of s
IsSlice(w, s) == \E i, j \in 0..Len(s) : w = SubSeq(s, i + 1, j)

\* C21: when a boundary matches at a position whose cut start or cut end is
\* past the last grapheme, split takes the end of the input as the cut
\* position and still returns a word list, every word a slice of the input.
C21_ClampedToEnd ==
    (/\ output.st # "none"
     /\ \E i \in 0..(Len(input) - 1) : MatchPastEnd(input, boundaries, i))
    => /\ output.st = "ok"
       /\ \A k \in 1..Len(words) : IsSlice(words[k], input)

\* how many times the list bs holds b
Count(b, bs) == Cardinality({k \in 1..Len(bs) : bs[k] = b})

NoDuplicate(bs) == \A i, j \in 1..Len(bs) : bs[i] = bs[j] => i = j

\* C22 as stated: whatever builder calls were made, the converter's
\* boundary list holds no boundary twice.
C22_NoDuplicateBoundary == NoDuplicate(boundaries)

\* C22: the boundary list is a plain list.  new and from_case give a list
\* without duplicates and set_boundaries stores the list it is given;
\* add_boundary appends its boundary and add_boundaries its list whether or
\* not the list holds them already (new().add_boundary(Hyphen) holds Hyphen
\* twice); remove_boundary and remove_boundaries add no occurrence.
C22_BoundariesArePlainList ==
    /\ [](calls = 0 => NoDuplicate(boundaries))
    /\ [][/\ \A case \in Cases : FromCase(case) => NoDuplicate(boundaries')
          /\ \A bs \in SetBoundariesArgs : SetBoundaries(bs) => boundaries' = bs
          /\ \A b \in AddBoundaryArgs :
                AddBoundary(b) => /\ boundaries' = boundaries \o <<b>>
                                  /\ Count(b, boundaries') = Count(b, boundaries) + 1
          /\ \A bs \in AddBoundariesArgs :
                AddBoundaries(bs) => boundaries' = boundaries \o bs
          /\ \A b \in RemoveBoundaryArgs :
                RemoveBoundary(b)
                => \A x \in Range(boundaries') : Count(x, boundaries') = Count(x, boundaries)
          /\ \A bs \in RemoveBoundariesArgs :
                RemoveBoundaries(bs)
                => \A x \in Range(boundaries') : Count(x, boundaries') = Count(x, boundaries)
         ]_vars

\* Converter::new().add_boundary(Hyphen): Hyphen twice
C22_Witness ==
    /\ calls = 1
    /\ boundaries = Boundary_defaults \o <<Hyphen>>
    /\ Count(Hyphen, boundaries) = 2

\* the list bs without every boundary of the set named, the others in
\* their order
Without(bs, named) == LET Other(x) == x \notin named IN SelectSeq(bs, Other)

\* C23: remove_boundary(b) and remove_boundaries(bs) with built-in
\* boundaries leave the list without any occurrence of the named boundaries
\* and with every other boundary in its previous order; naming a boundary
\* that is absent changes nothing; add_boundary(b) then remove_boundary(b)
\* leaves a list without b, whatever the list held before.
C23_RemoveBoundaries ==
    /\ [][/\ \A b \in RemoveBoundaryArgs :
                RemoveBoundary(b)
                => /\ boundaries' = Without(boundaries, {b})
                   /\ ~InList(b, boundaries')
                   /\ ~InList(b, boundaries) => boundaries' = boundaries
          /\ \A bs \in RemoveBoundariesArgs :
                RemoveBoundaries(bs)
                => /\ boundaries' = Without(boundaries, Range(bs))
                   /\ \A k \in 1..Len(bs) : ~InList(bs[k], boundaries')
                   /\ (\A k \in 1..Len(bs) : ~InList(bs[k], boundaries))
                      => boundaries' = boundaries
         ]_vars
    /\ [](\A b \in AddBoundaryArgs \cup RemoveBoundaryArgs :
             Converter_remove_boundary(Converter_add_boundary(conv, b), b).boundaries
                 = Without(boundaries, {b}))

\* new().add_boundary(Hyphen).remove_boundary(Hyphen): both Hyphens gone
C23_Witness ==
    /\ calls = 2
    /\ boundaries = Without(Boundary_defaults \o <<Hyphen>>, {Hyphen})
    /\ Len(boundaries) = 8
    /\ ~InList(Hyphen, boundaries)

\* the list bs with the boundaries at positions i and j exchanged
Swap(bs, i, j) ==
    [k \in 1..Len(bs) |-> IF k = i THEN bs[j] ELSE IF k = j THEN bs[i] ELSE bs[k]]

Reverse(bs) == [k \in 1..Len(bs) |-> bs[Len(bs) + 1 - k]]

\* reorderings of bs (the reverse and every exchange of two boundaries) and
\* bs with boundaries repeated
Rearranged(bs) ==
    {Reverse(bs), bs \o bs, bs \o Reverse(bs)}
        \cup {Swap(bs, i, j) : i, j \in 1..Len(bs)}
        \cup {<<bs[k]>> \o bs : k \in 1..Len(bs)}

\* the boundaries of bs that match s from position i (from 0) on
MatchingAt(bs, s, i) ==
    {bs[k] : k \in {j \in 1..Len(bs) : matches(bs[j], SubSeq(s, i + 1, Len(s)))}}

\* C24: for a list of built-in boundaries the words split returns do not
\* depend on the order of the list nor on boundaries repeated in it: the
\* reordered and the repeated lists split the input into the same words,
\* and the boundaries of the list that match at one position all cut at the
\* same place and consume the same graphemes.
C24_OrderIrrelevant ==
    (/\ WritesAs("Snake")
     /\ Range(boundaries) \subseteq BuiltinBoundaries)
    => /\ output.st = "ok"
       /\ \A bs \in Rearranged(boundaries) :
             split(input, bs) = [panic |-> FALSE, words |-> words]
       /\ \A i \in 0..(Len(input) - 1) :
             \A b1, b2 \in MatchingAt(boundaries, input, i) :
                /\ Boundary_start(b1) = Boundary_start(b2)
                /\ Boundary_len(b1) = Boundary_len(b2)

\* "8a8A8" split with the defaults, which cut it four times, written as
\* snake: the reversed list cuts it alike
C24_Witness ==
    /\ WritesAs("Snake")
    /\ boundaries = Boundary_defaults
    /\ input = S_8a8A8
    /\ Len(words) = 5
    /\ split(input, Reverse(boundaries)).words = words

\* the word with its first grapheme uppercased and the others lowercased
Capitalized(w) ==
    IF w = <<>> THEN <<>>
    ELSE to_uppercase_map[w[1]] \o to_lowercase(SubSeq(w, 2, Len(w)))

\* the words of the state, also with an empty word before or after them
WithEmptyWords(ws) == {ws, <<<<>>>> \o ws, ws \o <<<<>>>>, <<<<>>>> \o ws \o <<<<>>>>}

\* C25: Camel lowercases word 0 and capitalizes every other word, Sentence
\* capitalizes word 0 and lowercases every other word; both keep the number
\* and order of the words and give an empty word for an empty word; so the
\* empty first word of "_empty__first_word" takes Camel's word 0 and the
\* camel conversion is "EmptyFirstWord".
C25_CamelSentence ==
    /\ (output.st = "ok" /\ (WritesAs("Camel") \/ WritesAs("Sentence")))
       => \A ws \in WithEmptyWords(words) :
             /\ Len(mutate("Camel", ws)) = Len(ws)
             /\ Len(mutate("Sentence", ws)) = Len(ws)
             /\ \A k \in 1..Len(ws) :
                   /\ mutate("Camel", ws)[k]
                        = IF k = 1 THEN to_lowercase(ws[k]) ELSE Capitalized(ws[k])
                   /\ mutate("Sentence", ws)[k]
                        = IF k = 1 THEN Capitalized(ws[k]) ELSE to_lowercase(ws[k])
                   /\ ws[k] = <<>>
                      => mutate("Camel", ws)[k] = <<>> /\ mutate("Sentence", ws)[k] = <<>>
    /\ (WritesAs("Camel") /\ boundaries = Boundary_defaults /\ input = S_empty_first_word)
       => output.val = <<"E", "m", "p", "t", "y", "F", "i", "r", "s", "t", "W", "o", "r", "d">>

\* how many cased letters come before letter j of word k in the words ws
CasedBefore(ws, k, j) ==
    Len(SelectSeq(Concat(SubSeq(ws, 1, k - 1)) \o SubSeq(ws[k], 1, j - 1), char_is_cased))

\* letter j of word k as the one walk over all words writes it
Alternated(ws, k, j) ==
    IF ~char_is_cased(ws[k][j]) THEN <<ws[k][j]>>
    ELSE IF CasedBefore(ws, k, j) % 2 = 0 THEN to_lowercase_map[ws[k][j]]
    ELSE to_uppercase_map[ws[k][j]]

RECURSIVE AlternatedFrom(_, _, _)
\* word k from its letter j on
AlternatedFrom(ws, k, j) ==
    IF j > Len(ws[k]) THEN <<>>
    ELSE Alternated(ws, k, j) \o AlternatedFrom(ws, k, j + 1)

\* C26: Alternating keeps one toggle over the whole word list: the k-th
\* cased letter overall (from 0, across the words) is lowercased for even k
\* and uppercased for odd k, other characters are copied and do not count,
\* and every conversion starts the toggle at lower; "Another", "Example"
\* gives "aNoThEr", "ExAmPlE".
C26_AlternatingAcrossWords ==
    (output.st = "ok" /\ WritesAs("Alternating"))
    => /\ mutate("Alternating", words)
            = [k \in 1..Len(words) |-> AlternatedFrom(words, k, 1)]
       /\ output.val
            = join([k \in 1..Len(words) |-> AlternatedFrom(words, k, 1)], <<" ">>)

C26_Witness ==
    /\ WritesAs("Alternating")
    /\ input = S_Another_Example
    /\ words = <<<<"A", "n", "o", "t", "h", "e", "r">>, <<"E", "x", "a", "m", "p", "l", "e">>>>
    /\ output.val = <<"a", "N", "o", "T", "h", "E", "r", " ",
                      "E", "x", "A", "m", "P", "l", "E">>

\* the boundary b matches at some grapheme position of s
MatchesSomewhere(b, s) ==
    \E i \in 0..(Len(s) - 1) : matches(b, SubSeq(s, i + 1, Len(s)))

\* the defaults that match somewhere in s, in the order of the defaults
IdentifiedIn(s) ==
    LET Found(b) == MatchesSomewhere(b, s) IN SelectSeq(Boundary_defaults, Found)

\* C27: defaults_from(s) is the list of the default boundaries, in the order
\* of Boundary::defaults(), that match at some grapheme position of s;
\* UpperLower is never in it, and a string in which no default boundary
\* matches, the empty string too, gives the empty list.
C27_DefaultsFrom ==
    (calls = 1 /\ output.st = "ok")
    => /\ boundaries = IdentifiedIn(input)
       /\ ~InList(UpperLower, boundaries)
       /\ input = <<>> => boundaries = <<>>

\* what is left of the written words after splitting the identifier with
\* the case's boundaries and applying the case's pattern again
ReadBack == mutate(patterns[1], split(input, boundaries).words)

IsAsciiLetter(g) == g \in Range(LowerLetters) \cup Range(UpperLetters)

\* every word has two or more graphemes, all of them ASCII letters
WordsOfLetters(ws) ==
    \A k \in 1..Len(ws) :
        Len(ws[k]) >= 2 /\ \A j \in 1..Len(ws[k]) : IsAsciiLetter(ws[k][j])

\* C28 as stated: for every case but Flat and UpperFlat and every word list,
\* splitting what the case wrote with the case's own boundaries and applying
\* the case's pattern gives the words the pattern made of the list.
C28_BoundariesRecoverWords ==
    (calls = 1 /\ output.st = "ok" /\ boundaries # <<>>)
    => /\ ~split(input, boundaries).panic
       /\ ReadBack = mutate(patterns[1], words)

\* C28: the same for the word lists whose words have two or more ASCII
\* letters each, as the four lists of the test have.
C28_BoundariesRecoverLetterWords ==
    (calls = 1 /\ output.st = "ok" /\ boundaries # <<>> /\ WordsOfLetters(words))
    => /\ ~split(input, boundaries).panic
       /\ ReadBack = mutate(patterns[1], words)

\* "XML", "HTTP", "Request" written in Pascal case and read back
C28_Witness ==
    /\ calls = 1
    /\ words = <<<<"X", "M", "L">>, <<"H", "T", "T", "P">>,
                 <<"R", "e", "q", "u", "e", "s", "t">>>>
    /\ boundaries = Case_boundaries("Pascal")
    /\ patterns = <<"Capital">>
    /\ input = <<"X", "m", "l", "H", "t", "t", "p", "R", "e", "q", "u", "e", "s", "t">>
    /\ Len(ReadBack) = 3

\* s.to_case(case): a new converter, to_case(case), convert(s)
ToCaseOf(s, case) == Converter_convert(Converter_to_case(Converter_new, case), s).val

\* C29: with the default boundaries at every step, converting to Camel what
\* to_case(Snake) returned gives the same string as converting to Camel what
\* to_case(Kebab) returns for the same input.
C29_IntermediateCase ==
    (output.st = "ok" /\ WritesAs("Snake") /\ boundaries = Boundary_defaults)
    => /\ output.val = ToCaseOf(input, "Snake")
       /\ ToCaseOf(output.val, "Camel") = ToCaseOf(ToCaseOf(input, "Kebab"), "Camel")

\* "myVariable22Name" converted to snake case, and from there back to camel
C29_Witness ==
    /\ WritesAs("Snake")
    /\ boundaries = Boundary_defaults
    /\ input = lossless_examples.Camel
    /\ output.val = lossless_examples.Snake
    /\ ToCaseOf(output.val, "Camel") = input
    /\ ToCaseOf(input, "Kebab") = lossless_examples.Kebab

\* the graphemes the delimiter boundaries of the list bs consume
ConsumedBy(bs) ==
    {g \in {"_", "-", " "} :
        \/ g = "_" /\ InList(Underscore, bs)
        \/ g = "-" /\ InList(Hyphen, bs)
        \/ g = " " /\ InList(Space, bs)}

\* s without the graphemes of the set gone
Kept(s, gone) == LET Stays(g) == g \notin gone IN SelectSeq(s, Stays)

\* C30: with a list of built-in boundaries split does not panic (the cut
\* positions never decrease) and loses no text but the consumed delimiters:
\* every word is a run of consecutive graphemes of the input, the words in
\* their order make up the input without the graphemes of the Underscore,
\* Hyphen and Space boundaries of the list, so the whole input when the list
\* has only non-consuming boundaries, and no word reaches across a removed
\* delimiter.
C30_SplitLosesNoText ==
    (output.st # "none" /\ Range(boundaries) \subseteq BuiltinBoundaries)
    => /\ output.st = "ok"
       /\ \A k \in 1..Len(words) : IsSlice(words[k], input)
       /\ Concat(words) = Kept(input, ConsumedBy(boundaries))
       /\ ConsumedBy(boundaries) = {} => Concat(words) = input
       /\ \A p \in 1..Len(input) :
             (/\ input[p] \in ConsumedBy(boundaries)
              /\ Len(Kept(SubSeq(input, 1, p), ConsumedBy(boundaries))) \in
                     1..(Len(Kept(input, ConsumedBy(boundaries))) - 1))
             => Len(Kept(SubSeq(input, 1, p), ConsumedBy(boundaries))) \in Cuts(words)

\* "_empty__first_word" read as Snake: four underscores gone, three words
C30_Witness ==
    /\ output.st = "ok"
    /\ input = S_empty_first_word
    /\ boundaries = <<Underscore>>
    /\ Len(words) = 3
    /\ Len(Concat(words)) = Len(input) - 4

====
